---------------------------- MODULE Spec2Model ----------------------------
(***************************************************************************)
(* PriceHunter web client (src/droidrun/web/app.js) together with the      *)
(* boundary it talks to: POST /search, POST /order and the per-task push   *)
(* channel /ws/<task id>.  The client is translated from app.js.  The      *)
(* orchestrators and the event broadcaster behind the boundary are not     *)
(* part of the source tree; they are modelled from spec.md sections 4-6.   *)
(*                                                                         *)
(* Text is a sequence of one-character strings (and of whole-literal       *)
(* tokens for the fixed texts of the page), so that trim, capitalize and   *)
(* toUpperCase are computed and not assumed.  An optional value is <<>>    *)
(* when absent and <<v>> when present.                                     *)
(***************************************************************************)
EXTENDS Integers, Sequences, FiniteSets, TLC

(* ------------------------------ bounds -------------------------------- *)
\* Searches and orders the client issues in one run.
MaxSearches == 2
MaxOrders == 2
\* Storefront cards of the page: the first NumApps entries of AppOrder.
NumApps == 2
\* Prices a probe can report: 0..MaxPrice.
MaxPrice == 2
\* Events in flight on one push channel.
MaxQueue == 1

(* ------------------------------- text --------------------------------- *)
Amazon == <<"a", "m", "a", "z", "o", "n">>
Flipkart == <<"f", "l", "i", "p", "k", "a", "r", "t">>
Blinkit == <<"b", "l", "i", "n", "k", "i", "t">>
Zepto == <<"z", "e", "p", "t", "o">>

\* The storefronts in their configured precedence order.
AppOrder == <<Amazon, Flipkart, Blinkit, Zepto>>

Apps == {AppOrder[i] : i \in 1..NumApps}

Precedence(a) == CHOOSE i \in 1..Len(AppOrder) : AppOrder[i] = a

LowerCase == <<"a", "b", "e", "f", "i", "k", "l", "m", "n", "o", "p", "r", "t", "v", "z">>
UpperCase == <<"A", "B", "E", "F", "I", "K", "L", "M", "N", "O", "P", "R", "T", "V", "Z">>

ToUpper(c) ==
    IF \E i \in 1..Len(LowerCase) : LowerCase[i] = c
    THEN UpperCase[CHOOSE i \in 1..Len(LowerCase) : LowerCase[i] = c]
    ELSE c

toUpperCase(str) == [i \in 1..Len(str) |-> ToUpper(str[i])]

\* str.charAt(0).toUpperCase() + str.slice(1)
capitalize(str) ==
    IF str = <<>> THEN <<>> ELSE <<ToUpper(Head(str))>> \o Tail(str)

RECURSIVE TrimStart(_)
TrimStart(s) ==
    IF s # <<>> /\ Head(s) = " " THEN TrimStart(Tail(s)) ELSE s

RECURSIVE TrimEnd(_)
TrimEnd(s) ==
    IF s # <<>> /\ s[Len(s)] = " " THEN TrimEnd(SubSeq(s, 1, Len(s) - 1)) ELSE s

\* The value as typed, with no trimming.
untrimmed(s) == s

\* String.prototype.trim
trim(s) == TrimEnd(TrimStart(s))

\* What the user can have typed into productInput.
InputValues ==
    { <<>>, <<" ">>, <<"t", "v">>, <<" ", "t", "v", " ">>, <<"p", "e", "n">> }

(* ------------------------- optional values ---------------------------- *)
None == <<>>
Some(v) == <<v>>
IsSome(o) == o # <<>>
Get(o) == o[1]

(* ------------------------- wire data (spec 6) ------------------------- *)
Prices == 0..MaxPrice

(* ------------------------------- scopes ------------------------------- *)
(* A run is explored within one scope: how many searches and orders the    *)
(* user issues, how many storefronts the orchestrator is configured with   *)
(* (a prefix of AppOrder), which prices a probe can report, what the user   *)
(* can have typed, and whether requests fail and channels break.  The       *)
(* scopes trade breadth of data for depth of interleaving; the reachable    *)
(* states are those of all scopes together.                                 *)
Scope(s, o, k, prices, inputs, faults) ==
    [searches |-> s, orders |-> o, apps |-> k, prices |-> prices,
     inputs |-> inputs, faults |-> faults]

OneProduct == { <<"t", "v">> }
TwoProducts == { <<"t", "v">>, <<"p", "e", "n">> }

Scopes ==
    { Scope(1, 1, NumApps, Prices, OneProduct, TRUE),
      Scope(MaxSearches, 0, NumApps, {}, OneProduct, TRUE),
      Scope(MaxSearches, 0, 1, {1}, InputValues, TRUE),
      Scope(1, MaxOrders, 1, {1}, OneProduct, TRUE) }

\* Two searches for different products around one order, on a network
\* without faults; and one search and one order with them.
ReorderScopes ==
    { Scope(MaxSearches, 1, 1, {1}, TwoProducts, FALSE),
      Scope(1, 1, 1, {1}, OneProduct, TRUE) }

\* result: {found: bool, price?: number, error?: string}
FoundResult(p) == [found |-> TRUE, price |-> Some(p), error |-> None]
NotFoundResult(e) == [found |-> FALSE, price |-> None, error |-> e]

\* error?: string of a terminal order event: absent, empty, or a reason.
ErrorTexts == { None, Some(<<>>), Some(<<"timeout">>) }

ProbeResults(prices) ==
    {FoundResult(p) : p \in prices} \cup {NotFoundResult(Some(<<"timeout">>))}

Offer(a, p) == [app |-> a, price |-> p]

\* One message of the push channel; an absent field is <<>>.
Event(ca, ac, res, st, bst, err) ==
    [current_app |-> ca, app_complete |-> ac, result |-> res,
     status |-> st, best |-> bst, error |-> err]

ProbeStarted(a) == Event(a, None, None, None, None, None)
ProbeCompleted(a, r) == Event(None, a, Some(r), None, None, None)
SearchCompleted(bst) == Event(None, None, None, <<"completed">>, bst, None)
OrderCompleted == Event(None, None, None, <<"completed">>, None, None)
OrderFailed(err) == Event(None, None, None, <<"error">>, None, err)

(* ------------------- PriceHunter: the client object ------------------- *)
(* One record holds the fields of the PriceHunter instance and the state   *)
(* of the page elements it drives.  Every method is a function from the    *)
(* record before the call to the record after it, so that a handler that   *)
(* calls several methods is their composition in the order of the code.    *)

Txt(literal) == <<literal>>

PendingCard ==
    [bestPrice |-> FALSE, loadingHidden |-> FALSE, contentHidden |-> TRUE,
     productName |-> Txt("Waiting..."), badge |-> "Pending",
     priceValue |-> <<>>, buyHidden |-> TRUE]

\* constructor(): the page as loaded (sections and modals hidden).
NewPriceHunter ==
    [currentTaskId |-> None, currentProduct |-> None, ws |-> None,
     results |-> [probe |-> [a \in Apps |-> None], best |-> None],
     selectedOrderApp |-> None,
     searchBtnDisabled |-> FALSE,
     statusHidden |-> TRUE, statusTitle |-> <<>>, statusMessage |-> <<>>,
     resultsHidden |-> TRUE,
     bestDealHidden |-> TRUE, bestApp |-> <<>>, bestPrice |-> <<>>,
     bestAppBtn |-> <<>>,
     card |-> [a \in Apps |-> PendingCard],
     orderModalHidden |-> TRUE, orderApp |-> <<>>, orderProduct |-> None,
     orderStatusHidden |-> TRUE, orderStatusTitle |-> <<>>,
     orderStatusMsg |-> <<>>,
     \* productInput.focus() has been called (no code moves the focus away)
     focusCalled |-> FALSE]

\* btnText, btnLoader and searchBtn.disabled change together.
setSearchLoading(s, loading) == [s EXCEPT !.searchBtnDisabled = loading]

showStatus(s, title, message) ==
    [s EXCEPT !.statusHidden = FALSE, !.statusTitle = title,
              !.statusMessage = message]

resetCards(s) == [s EXCEPT !.card = [a \in Apps |-> PendingCard]]

setCardSearching(s, app) ==
    IF app \notin Apps THEN s
    ELSE [s EXCEPT !.card[app].badge = "Searching",
                   !.card[app].productName = Txt("Searching...")]

\* JavaScript truthiness of result.price: a number other than 0.
PriceTruthy(price) == IsSome(price) /\ Get(price) # 0

\* result.error || 'Not found'
ErrorOrNotFound(error) ==
    IF IsSome(error) /\ Get(error) # <<>> THEN Get(error) ELSE Txt("Not found")

updateCard(s, app, result) ==
    IF app \notin Apps THEN s
    ELSE LET shown ==
                 IF result.found /\ PriceTruthy(result.price)
                 THEN [s.card[app] EXCEPT
                          !.loadingHidden = TRUE, !.contentHidden = FALSE,
                          !.priceValue = Txt(ToString(Get(result.price))),
                          !.productName = IF IsSome(s.currentProduct)
                                          THEN Get(s.currentProduct) ELSE <<>>,
                          !.badge = "Found", !.buyHidden = FALSE]
                 ELSE [s.card[app] EXCEPT
                          !.loadingHidden = TRUE, !.contentHidden = FALSE,
                          !.priceValue = Txt("--"),
                          !.productName = ErrorOrNotFound(result.error),
                          !.badge = "Error"]
         IN [s EXCEPT !.card[app] = shown,
                      !.results.probe[app] = Some(result)]

handleSearchComplete(s, data) ==
    LET s1 == [setSearchLoading(s, FALSE) EXCEPT !.statusHidden = TRUE]
    IN IF IsSome(data.best)
       THEN LET best == Get(data.best)
                s2 == [s1 EXCEPT
                          !.results.best = Some(best),
                          !.bestApp = capitalize(best.app),
                          \* the rupee sign, then the price
                          !.bestPrice = Txt("Rs") \o Txt(ToString(best.price)),
                          !.bestAppBtn = capitalize(best.app),
                          !.bestDealHidden = FALSE]
            IN IF best.app \in Apps
               THEN [s2 EXCEPT !.card[best.app].bestPrice = TRUE]
               ELSE s2
       ELSE s1

SearchingTitle(app) == Txt("Searching on ") \o capitalize(app) \o Txt("...")

SearchingMessage(app, product) ==
    Txt("Your phone is searching ") \o toUpperCase(app) \o Txt(" for ")
        \o (IF IsSome(product) THEN Get(product) ELSE Txt("null"))

handleUpdate(s, data) ==
    LET s1 == IF data.current_app # <<>>
              THEN setCardSearching(
                       showStatus(s, SearchingTitle(data.current_app),
                                  SearchingMessage(data.current_app,
                                                   s.currentProduct)),
                       data.current_app)
              ELSE s
        s2 == IF data.app_complete # <<>> /\ IsSome(data.result)
              THEN updateCard(s1, data.app_complete, Get(data.result))
              ELSE s1
    IN IF data.status = <<"completed">>
       THEN handleSearchComplete(s2, data)
       ELSE s2

showOrderModal(s, app) ==
    [s EXCEPT !.selectedOrderApp = Some(app), !.orderApp = capitalize(app),
              !.orderProduct = s.currentProduct, !.orderModalHidden = FALSE]

hideOrderModal(s) == [s EXCEPT !.orderModalHidden = TRUE]

\* placeOrder up to the fetch: the modal closes and the status modal opens.
placeOrderBegin(s) ==
    [hideOrderModal(s) EXCEPT
        !.orderStatusHidden = FALSE,
        !.orderStatusTitle = Txt("Placing Order..."),
        !.orderStatusMsg = Txt("Automating order on ")
            \o capitalize(IF IsSome(s.selectedOrderApp)
                          THEN Get(s.selectedOrderApp) ELSE Txt("undefined"))
            \o Txt("...")]

\* JSON.stringify({product: this.currentProduct, app: this.selectedOrderApp})
orderBody(s) == [product |-> s.currentProduct, app |-> s.selectedOrderApp]

\* The same with ?? in place of ||: an empty reason is shown as it is.
orderFailureMessageNullish(error) ==
    IF IsSome(error) THEN Get(error) ELSE Txt("Failed to place order")

\* update.error || 'Failed to place order'
orderFailureMessage(error) ==
    IF IsSome(error) /\ Get(error) # <<>>
    THEN Get(error) ELSE Txt("Failed to place order")

\* orderWs.onmessage, the part that writes the page; TerminalOrderEvent says
\* whether the branch also arms the hide timer and closes the channel.
TerminalOrderEvent(update) ==
    update.status = <<"completed">> \/ update.status = <<"error">>

orderOnMessage(s, update) ==
    IF update.status = <<"completed">>
    THEN [s EXCEPT !.orderStatusTitle = Txt("Order Placed!"),
                   !.orderStatusMsg =
                       Txt("Your order has been placed successfully!")]
    ELSE IF update.status = <<"error">>
    THEN [s EXCEPT !.orderStatusTitle = Txt("Order Failed"),
                   !.orderStatusMsg = orderFailureMessage(update.error)]
    ELSE s

\* The catch branch of placeOrder.
orderCatch(s) ==
    [s EXCEPT !.orderStatusTitle = Txt("Error"),
              !.orderStatusMsg = Txt("Failed to communicate with server")]

\* startSearch from the assignment of currentProduct up to the fetch.
startSearchBegin(s, product) ==
    LET s1 == [s EXCEPT !.currentProduct = Some(product),
                        !.results = [probe |-> [a \in Apps |-> None],
                                     best |-> None]]
        s2 == showStatus(setSearchLoading(s1, TRUE),
                         Txt("Connecting to your phone..."),
                         Txt("Starting search..."))
        s3 == resetCards([s2 EXCEPT !.resultsHidden = FALSE])
    IN [s3 EXCEPT !.bestDealHidden = TRUE]

\* The catch branch without its setSearchLoading(false).
startSearchCatchStillLoading(s) ==
    showStatus(s, Txt("Connection failed"),
               Txt("Could not connect to server. Is it running?"))

\* The catch branch of startSearch.
startSearchCatch(s) ==
    setSearchLoading(
        showStatus(s, Txt("Connection failed"),
                   Txt("Could not connect to server. Is it running?")),
        FALSE)

(* --------------------- winner selection (spec 4.2) --------------------- *)
FoundApps(res) == {a \in Apps : IsSome(res[a]) /\ Get(res[a]).found}

PriceOf(res, a) == Get(Get(res[a]).price)

\* Minimum price among the found results, ties by storefront precedence.
Winner(res) ==
    IF FoundApps(res) = {} THEN None
    ELSE LET a == CHOOSE x \in FoundApps(res) :
                      \A y \in FoundApps(res) :
                          \/ PriceOf(res, x) < PriceOf(res, y)
                          \/ /\ PriceOf(res, x) = PriceOf(res, y)
                             /\ Precedence(x) <= Precedence(y)
         IN Some(Offer(a, PriceOf(res, a)))

(* ------------------------------- state -------------------------------- *)
VARIABLES
    ph,       \* the PriceHunter instance and its page
    nCalls,   \* requests the client has issued so far
    call,     \* per request: kind, body and where its fetch stands
    task,     \* the task registry behind the boundary (task id = request no.)
    chan,     \* per task: the push channel the client opened for it
    timer,    \* per order: pending 3-second hide timers
    seen,     \* per channel: what the client has handled on it
    dropped,  \* per task: an event was published with no subscriber
    scope     \* the scope of this run

vars == <<ph, nCalls, call, task, chan, timer, seen, dropped, scope>>

Calls == 1..(MaxSearches + MaxOrders)

\* The storefronts the orchestrator is configured with.
Storefronts == {AppOrder[i] : i \in 1..scope.apps}

Issued(kind) == Cardinality({i \in Calls : call[i].kind = kind})

NoCall == [kind |-> "none", fetch |-> "none", product |-> None, app |-> None]

NoTask ==
    [status |-> "none", probe |-> [a \in Apps |-> "idle"],
     result |-> [a \in Apps |-> None], best |-> None, error |-> None]

NoChannel == [state |-> "none", q |-> <<>>]

NothingSeen == [settled |-> [a \in Apps |-> 0], terminal |-> 0, shown |-> 0]

InitIn(scopes) ==
    /\ ph = NewPriceHunter
    /\ nCalls = 0
    /\ call = [i \in Calls |-> NoCall]
    /\ task = [i \in Calls |-> NoTask]
    /\ chan = [i \in Calls |-> NoChannel]
    /\ timer = [i \in Calls |-> 0]
    /\ seen = [i \in Calls |-> NothingSeen]
    /\ dropped = [i \in Calls |-> FALSE]
    /\ scope \in scopes

Init == InitIn(Scopes)

(* --------------------------- client actions --------------------------- *)
\* startSearch() up to its first await; value is productInput.value.
startSearch(value) ==
    LET product == trim(value)
    IN IF product = <<>>
       THEN /\ ph' = [ph EXCEPT !.focusCalled = TRUE]  \* focus(); return
            /\ UNCHANGED <<nCalls, call, task, chan, timer, seen, dropped,
                           scope>>
       ELSE /\ Issued("search") < scope.searches
            /\ ph' = startSearchBegin(ph, product)
            /\ nCalls' = nCalls + 1
            /\ call' = [call EXCEPT ![nCalls + 1] =
                           [kind |-> "search", fetch |-> "sent",
                            product |-> Some(product), app |-> None]]
            /\ UNCHANGED <<task, chan, timer, seen, dropped, scope>>

\* A click on searchBtn; a disabled button delivers no click.
ClickSearch ==
    /\ ~ph.searchBtnDisabled
    /\ \E value \in scope.inputs : startSearch(value)

\* The Enter key in productInput.
EnterKey == \E value \in scope.inputs : startSearch(value)

\* connectWebSocket(taskId): the handlers stay attached to the socket.
connectWebSocket(i) ==
    chan' = [chan EXCEPT ![i] = [state |-> "connecting", q |-> <<>>]]

\* startSearch() after its awaits: the response carries the task id.
SearchResponse(i) ==
    /\ call[i].kind = "search"
    /\ call[i].fetch = "replied"
    /\ call' = [call EXCEPT ![i].fetch = "done"]
    /\ ph' = [ph EXCEPT !.currentTaskId = Some(i), !.ws = Some(i)]
    /\ connectWebSocket(i)
    /\ UNCHANGED <<nCalls, task, timer, seen, dropped, scope>>

\* fetch rejects, or response.json() throws on an error body: the catch
\* branch.  No task exists behind a request that fails.
SearchFetchFail(i) ==
    /\ scope.faults
    /\ call[i].kind = "search"
    /\ call[i].fetch = "sent"
    /\ call' = [call EXCEPT ![i].fetch = "failed"]
    /\ ph' = startSearchCatch(ph)
    /\ UNCHANGED <<nCalls, task, chan, timer, seen, dropped, scope>>

\* ws.onmessage of a search channel.
SearchOnMessage(i) ==
    /\ call[i].kind = "search"
    /\ chan[i].state = "open"
    /\ chan[i].q # <<>>
    /\ LET data == Head(chan[i].q)
       IN /\ ph' = handleUpdate(ph, data)
          /\ seen' = [seen EXCEPT
                 ![i].settled = [a \in Apps |->
                     IF data.app_complete = a /\ IsSome(data.result)
                     THEN @[a] + 1 ELSE @[a]],
                 ![i].terminal =
                     IF data.status = <<"completed">> THEN @ + 1 ELSE @]
    /\ chan' = [chan EXCEPT ![i].q = Tail(@)]
    /\ UNCHANGED <<nCalls, call, task, timer, dropped, scope>>

\* A click on the Buy button of a card.
ClickBuy(a) ==
    /\ ~ph.resultsHidden
    /\ ~ph.card[a].buyHidden
    /\ ph' = showOrderModal(ph, a)
    /\ UNCHANGED <<nCalls, call, task, chan, timer, seen, dropped, scope>>

\* A click on buyBestBtn, which lives in the best-deal panel.
ClickBuyBest ==
    /\ ~ph.bestDealHidden
    /\ ph' = IF IsSome(ph.results.best)
             THEN showOrderModal(ph, Get(ph.results.best).app)
             ELSE ph
    /\ UNCHANGED <<nCalls, call, task, chan, timer, seen, dropped, scope>>

\* A click on cancelOrder or on .modal-close.
ClickCancel ==
    /\ ~ph.orderModalHidden
    /\ ph' = hideOrderModal(ph)
    /\ UNCHANGED <<nCalls, call, task, chan, timer, seen, dropped, scope>>

\* A click on confirmOrder: placeOrder() up to its first await.
placeOrder ==
    /\ ~ph.orderModalHidden
    /\ Issued("order") < scope.orders
    /\ ph' = placeOrderBegin(ph)
    /\ nCalls' = nCalls + 1
    /\ call' = [call EXCEPT ![nCalls + 1] =
                   [kind |-> "order", fetch |-> "sent",
                    product |-> orderBody(ph).product,
                    app |-> orderBody(ph).app]]
    /\ UNCHANGED <<task, chan, timer, seen, dropped, scope>>

\* placeOrder() after its awaits: orderWs is opened for the task id.
OrderResponse(i) ==
    /\ call[i].kind = "order"
    /\ call[i].fetch = "replied"
    /\ call' = [call EXCEPT ![i].fetch = "done"]
    /\ connectWebSocket(i)
    /\ UNCHANGED <<ph, nCalls, task, timer, seen, dropped, scope>>

\* The catch branch of placeOrder(): message and a 3-second hide timer.
OrderFetchFail(i) ==
    /\ scope.faults
    /\ call[i].kind = "order"
    /\ call[i].fetch = "sent"
    /\ call' = [call EXCEPT ![i].fetch = "failed"]
    /\ ph' = orderCatch(ph)
    /\ timer' = [timer EXCEPT ![i] = @ + 1]
    /\ seen' = [seen EXCEPT ![i].shown = @ + 1]
    /\ UNCHANGED <<nCalls, task, chan, dropped, scope>>

\* orderWs.onmessage: a terminal update also arms the timer and closes orderWs.
OrderOnMessage(i) ==
    /\ call[i].kind = "order"
    /\ chan[i].state = "open"
    /\ chan[i].q # <<>>
    /\ LET update == Head(chan[i].q)
       IN /\ ph' = orderOnMessage(ph, update)
          /\ IF TerminalOrderEvent(update)
             THEN /\ timer' = [timer EXCEPT ![i] = @ + 1]
                  /\ chan' = [chan EXCEPT ![i] =
                                 [state |-> "closed", q |-> <<>>]]
                  /\ seen' = [seen EXCEPT ![i].terminal = @ + 1,
                                          ![i].shown = @ + 1]
             ELSE /\ chan' = [chan EXCEPT ![i].q = Tail(@)]
                  /\ UNCHANGED <<timer, seen>>
    /\ UNCHANGED <<nCalls, call, task, dropped, scope>>

\* setTimeout(..., 3000) of an order fires.
TimerFire(i) ==
    /\ timer[i] > 0
    /\ timer' = [timer EXCEPT ![i] = @ - 1]
    /\ ph' = [ph EXCEPT !.orderStatusHidden = TRUE]
    /\ UNCHANGED <<nCalls, call, task, chan, seen, dropped, scope>>

(* ------------- behind the boundary (spec.md sections 4-6) ------------- *)
\* publish(taskId, event): to the active subscription, else dropped.
CanPublish(i) == chan[i].state = "open" => Len(chan[i].q) < MaxQueue

Publish(i, event) ==
    /\ CanPublish(i)
    /\ chan' = IF chan[i].state = "open"
               THEN [chan EXCEPT ![i].q = Append(@, event)]
               ELSE chan
    /\ dropped' = [dropped EXCEPT ![i] = @ \/ chan[i].state # "open"]

\* POST /search or POST /order: the task is registered and starts running.
CreateTask(i) ==
    /\ call[i].fetch = "sent"
    /\ call' = [call EXCEPT ![i].fetch = "replied"]
    /\ task' = [task EXCEPT ![i].status = "running"]
    /\ UNCHANGED <<ph, nCalls, chan, timer, seen, dropped, scope>>

\* The broadcaster accepts the client's connection to /ws/<task id>.
Subscribe(i) ==
    /\ chan[i].state = "connecting"
    /\ chan' = [chan EXCEPT ![i].state = "open"]
    /\ UNCHANGED <<ph, nCalls, call, task, timer, seen, dropped, scope>>

\* The channel errors or closes under the client (ws.onerror and ws.onclose
\* only log; orderWs has neither handler): what was in flight is lost.
ChannelClose(i) ==
    /\ scope.faults
    /\ chan[i].state \in {"connecting", "open"}
    /\ chan' = [chan EXCEPT ![i] = [state |-> "broken", q |-> <<>>]]
    /\ UNCHANGED <<ph, nCalls, call, task, timer, seen, dropped, scope>>

ProbeStart(i, a) ==
    /\ call[i].kind = "search"
    /\ task[i].status = "running"
    /\ task[i].probe[a] = "idle"
    /\ task' = [task EXCEPT ![i].probe[a] = "started"]
    /\ Publish(i, ProbeStarted(a))
    /\ UNCHANGED <<ph, nCalls, call, timer, seen, scope>>

ProbeSettle(i, a, r) ==
    /\ call[i].kind = "search"
    /\ task[i].status = "running"
    /\ task[i].probe[a] = "started"
    /\ task' = [task EXCEPT ![i].probe[a] = "settled",
                            ![i].result[a] = Some(r)]
    /\ Publish(i, ProbeCompleted(a, r))
    /\ UNCHANGED <<ph, nCalls, call, timer, seen, scope>>

SearchFinish(i) ==
    /\ call[i].kind = "search"
    /\ task[i].status = "running"
    /\ \A a \in Storefronts : task[i].probe[a] = "settled"
    /\ task' = [task EXCEPT ![i].status = "completed",
                            ![i].best = Winner(task[i].result)]
    /\ Publish(i, SearchCompleted(Winner(task[i].result)))
    /\ UNCHANGED <<ph, nCalls, call, timer, seen, scope>>

OrderSucceed(i) ==
    /\ call[i].kind = "order"
    /\ task[i].status = "running"
    /\ task' = [task EXCEPT ![i].status = "completed"]
    /\ Publish(i, OrderCompleted)
    /\ UNCHANGED <<ph, nCalls, call, timer, seen, scope>>

OrderFail(i, error) ==
    /\ call[i].kind = "order"
    /\ task[i].status = "running"
    /\ task' = [task EXCEPT ![i].status = "failed", ![i].error = error]
    /\ Publish(i, OrderFailed(error))
    /\ UNCHANGED <<ph, nCalls, call, timer, seen, scope>>

(* --------------------------- specification ---------------------------- *)
Next ==
    \/ ClickSearch
    \/ EnterKey
    \/ \E a \in Apps : ClickBuy(a)
    \/ ClickBuyBest
    \/ ClickCancel
    \/ placeOrder
    \/ \E i \in Calls : SearchResponse(i)
    \/ \E i \in Calls : SearchFetchFail(i)
    \/ \E i \in Calls : SearchOnMessage(i)
    \/ \E i \in Calls : OrderResponse(i)
    \/ \E i \in Calls : OrderFetchFail(i)
    \/ \E i \in Calls : OrderOnMessage(i)
    \/ \E i \in Calls : TimerFire(i)
    \/ \E i \in Calls : CreateTask(i)
    \/ \E i \in Calls : Subscribe(i)
    \/ \E i \in Calls : ChannelClose(i)
    \/ \E i \in Calls : \E a \in Storefronts : ProbeStart(i, a)
    \/ \E i \in Calls : \E a \in Storefronts :
           \E r \in ProbeResults(scope.prices) : ProbeSettle(i, a, r)
    \/ \E i \in Calls : SearchFinish(i)
    \/ \E i \in Calls : OrderSucceed(i)
    \/ \E i \in Calls : \E error \in ErrorTexts : OrderFail(i, error)

Spec == Init /\ [][Next]_vars

\* The same program, explored in the scopes of ReorderScopes.
SpecReorder == InitIn(ReorderScopes) /\ [][Next]_vars

(* ------------------------------ vocabulary ---------------------------- *)
Searches == {i \in Calls : call[i].kind = "search"}
Orders == {i \in Calls : call[i].kind = "order"}

\* Requests are numbered in the order the client issued them.
IsLatest(i, among) == i \in among /\ \A j \in among : j <= i

TaskOver(i) == task[i].status \in {"completed", "failed"}

\* Nothing is in flight on the channel of task i and nothing more will be
\* published on it.
ChannelDrained(i) ==
    \/ chan[i].state \in {"closed", "broken"}
    \/ chan[i].state = "open" /\ chan[i].q = <<>> /\ TaskOver(i)

\* The request of search i got its task id and no event can reach the
\* client for it any more.
SearchOver(i) == call[i].fetch = "done" /\ ChannelDrained(i)

SearchLoading == ph.searchBtnDisabled \/ ~ph.statusHidden

(* C1: every search whose POST /search returned a task id eventually leaves *)
(* the loading state (search button enabled, status section hidden), also   *)
(* when the channel was opened after the task completed or when it broke.   *)
(* Stated on the states in which nothing more can happen for any search:    *)
(* there the latest search must have left the loading state.                *)
C1_SearchLeavesLoading ==
    \A i \in Searches :
        ( /\ IsLatest(i, Searches)
          /\ SearchOver(i)
          /\ \A j \in Searches : call[j].fetch = "failed" \/ SearchOver(j) )
        => ~SearchLoading

(* C2: after every placeOrder the client eventually shows a terminal        *)
(* outcome and the order-status modal is eventually hidden, whatever the    *)
(* timing of the order task relative to the opening of its channel.         *)
(* Stated on the states in which every order's task is over, its channel    *)
(* is intact and empty (or was closed by the client) and no hide timer is   *)
(* pending: there every order has shown its outcome and the modal is        *)
(* hidden.                                                                  *)
OrderOver(i) ==
    /\ timer[i] = 0
    /\ \/ call[i].fetch = "failed"
       \/ /\ call[i].fetch = "done"
          /\ TaskOver(i)
          /\ chan[i].state \in {"open", "closed"}
          /\ chan[i].q = <<>>

C2_OrderNeverHangs ==
    (Orders # {} /\ \A i \in Orders : OrderOver(i))
    => /\ \A i \in Orders : seen[i].shown >= 1
       /\ ph.orderStatusHidden

(* C3: at most one search is active at a time: between the moment           *)
(* startSearch enters the loading state and the terminal event (or the      *)
(* failure branch) of that search, no click and no Enter key starts a       *)
(* second one, so at most one search request or search channel is live.     *)
SearchActive(i) ==
    \/ call[i].fetch \in {"sent", "replied"}
    \/ /\ call[i].fetch = "done"
       /\ chan[i].state \in {"connecting", "open"}
       /\ seen[i].terminal = 0

C3_SingleActiveSearch == Cardinality({i \in Searches : SearchActive(i)}) <= 1

\* The best offer carried by the terminal event the client has handled for
\* search i (<<>> when it has handled none, or the event carried no offer).
BestHandled(i) == IF seen[i].terminal > 0 THEN task[i].best ELSE None

(* C4: every POST /order names, as app, the storefront of the best offer    *)
(* carried by the terminal event of the current search, and no other.       *)
(* Judged on the orders sent once the current (latest) search has had its   *)
(* terminal event handled.                                                  *)
C4_OrdersGoToBest ==
    [][\A i \in Calls :
          (call[i].kind = "none" /\ call'[i].kind = "order")
          => \A j \in Searches :
                 (IsLatest(j, Searches) /\ seen[j].terminal > 0)
                 => /\ IsSome(BestHandled(j))
                    /\ call'[i].app = Some(Get(BestHandled(j)).app)]_vars

(* C5: in every reachable state the best-deal panel is visible, and         *)
(* results.best is set, only if the terminal event of the current search    *)
(* (the one the latest startSearch started) carried a best offer, and then  *)
(* results.best is that offer.                                              *)
C5_BestOnlyFromCurrentSearch ==
    (~ph.bestDealHidden \/ IsSome(ph.results.best))
    => \E i \in Searches :
           /\ IsLatest(i, Searches)
           /\ IsSome(BestHandled(i))
           /\ ph.results.best = BestHandled(i)

(* C6: the best offer recorded in results.best has the minimum price of    *)
(* the found results recorded in results, and on a tie the storefront of    *)
(* lowest precedence index.                                                 *)
C6_BestIsMinOfRecorded ==
    IsSome(ph.results.best) => ph.results.best = Winner(ph.results.probe)

(* C7: when the client handles the terminal event of a search it has        *)
(* handled exactly one probe-settled update for each configured storefront  *)
(* of that search, results holds an entry for each of them and none of      *)
(* their cards is still Pending or Searching.                               *)
C7_AllSettledAtTerminal ==
    [][\A i \in Searches :
          seen'[i].terminal > seen[i].terminal
          => \A a \in Storefronts :
                 /\ seen'[i].settled[a] = 1
                 /\ IsSome(ph'.results.probe[a])
                 /\ ph'.card[a].badge \in {"Found", "Error"}]_vars

(* C8: the status shown in the order-status modal for an order depends      *)
(* only on that order's own events: while the latest order is in progress   *)
(* (no outcome shown for it yet) the modal is visible and shows that        *)
(* order's progress text, whatever earlier orders and searches do.          *)
C8_OrderStatusNotDisturbed ==
    \A i \in Orders :
        (IsLatest(i, Orders) /\ seen[i].shown = 0)
        => /\ ~ph.orderStatusHidden
           /\ ph.orderStatusTitle = Txt("Placing Order...")
           /\ ph.orderStatusMsg =
                  Txt("Automating order on ") \o capitalize(Get(call[i].app))
                      \o Txt("...")

Rank(badge) ==
    CASE badge = "Pending" -> 0
      [] badge = "Searching" -> 1
      [] OTHER -> 2

C10_CardsOnlyForward ==
    [][/\ (Searches' = Searches)
          => \A a \in Apps :
                 Rank(ph'.card[a].badge) >= Rank(ph.card[a].badge)
       /\ \A i \in Searches :
              seen[i].terminal > 0 => seen'[i] = seen[i]]_vars

\* What of the page a search owns: the fields C15 and C14 speak about.
BestDealPanel(s) == <<s.bestDealHidden, s.bestApp, s.bestPrice, s.bestAppBtn>>

LoadingState(s) ==
    <<s.searchBtnDisabled, s.statusHidden, s.statusTitle, s.statusMessage>>

\* The typed value is empty or consists of spaces only.
IsBlank(value) == \A k \in 1..Len(value) : value[k] = " "

(* C15: startSearch with an empty or whitespace-only product changes        *)
(* nothing: no request is sent, no push channel is opened, and              *)
(* currentProduct, currentTaskId, results, the cards, the best-deal panel   *)
(* and the loading state are as they were before the call.                  *)
C15_BlankSearchChangesNothing ==
    [][\A value \in scope.inputs :
          (IsBlank(value) /\ startSearch(value))
          => /\ nCalls' = nCalls
             /\ call' = call
             /\ chan' = chan
             /\ ph'.ws = ph.ws
             /\ ph'.currentProduct = ph.currentProduct
             /\ ph'.currentTaskId = ph.currentTaskId
             /\ ph'.results = ph.results
             /\ ph'.card = ph.card
             /\ ph'.resultsHidden = ph.resultsHidden
             /\ BestDealPanel(ph') = BestDealPanel(ph)
             /\ LoadingState(ph') = LoadingState(ph)]_vars

\* The early return has run in a run in which a search is loading, with a
\* settled card on the page, and the page still shows that search.
C15_Witness ==
    /\ ph.focusCalled
    /\ ph.searchBtnDisabled
    /\ IsSome(ph.currentProduct)
    /\ \E a \in Apps : ph.card[a].badge = "Found"
    /\ \E i \in Searches : call[i].fetch = "done" /\ nCalls = 1

(* C14: when the POST /search request fails (the request rejects or the    *)
(* response body cannot be parsed) the client shows the connection-failed   *)
(* status, leaves the loading state with the search button enabled, opens   *)
(* no push channel and leaves currentTaskId as it was.                      *)
C14_FailedSearchRecovers ==
    [][\A i \in Searches :
          (call[i].fetch # "failed" /\ call'[i].fetch = "failed")
          => /\ ~ph'.statusHidden
             /\ ph'.statusTitle = Txt("Connection failed")
             /\ ph'.statusMessage =
                    Txt("Could not connect to server. Is it running?")
             /\ ~ph'.searchBtnDisabled
             /\ chan' = chan
             /\ chan'[i].state = "none"
             /\ ph'.ws = ph.ws
             /\ ph'.currentTaskId = ph.currentTaskId]_vars

\* The request of a second search failed after a first search had got its
\* task id: the status says so, the button is enabled, the failed search
\* has no channel and currentTaskId is still the first search's.
C14_Witness ==
    \E i \in Searches : \E j \in Searches :
        /\ j < i
        /\ call[j].fetch = "done"
        /\ call[i].fetch = "failed"
        /\ chan[i].state = "none"
        /\ ph.currentTaskId = Some(j)
        /\ ph.statusTitle = Txt("Connection failed")
        /\ ~ph.statusHidden
        /\ ~ph.searchBtnDisabled

(* C13: in every reachable state the Buy button of a storefront card is    *)
(* visible if and only if the latest probe result recorded in results for   *)
(* that storefront is a found one (with a price other than 0: a found       *)
(* result with price 0 shows no Buy button); a card with no result yet, or  *)
(* with a not-found result, also one that follows a found result, shows no  *)
(* Buy button.                                                              *)
C13_BuyIffFound ==
    \A a \in Apps :
        ~ph.card[a].buyHidden
        <=> /\ IsSome(ph.results.probe[a])
            /\ Get(ph.results.probe[a]).found
            /\ PriceTruthy(Get(ph.results.probe[a]).price)

\* The step is the client handling one message of the channel of search i.
Handles(i) ==
    /\ chan[i].state = "open"
    /\ chan'[i].state = "open"
    /\ Len(chan'[i].q) < Len(chan[i].q)

(* C11: every update the client applies to the cards, to results and to     *)
(* the best-deal panel comes from the push channel of the search started    *)
(* last: a message of an earlier search's channel changes none of them      *)
(* once a later search has started; and once no /search request is in       *)
(* flight, currentTaskId is the task id of the most recently started        *)
(* search that got one.                                                     *)
C11_UpdatesFromCurrentTask ==
    [][/\ \A i \in Searches :
              (Handles(i) /\ ~IsLatest(i, Searches))
              => /\ ph'.card = ph.card
                 /\ ph'.results = ph.results
                 /\ BestDealPanel(ph') = BestDealPanel(ph)
       /\ (\A i \in Searches' : call'[i].fetch \in {"done", "failed"})
          => \A i \in Searches' :
                 (call'[i].fetch = "done"
                  /\ \A j \in Searches' : call'[j].fetch = "done" => j <= i)
                 => ph'.currentTaskId = Some(i)]_vars

(* C12: the order request matches what the user confirmed: the product     *)
(* and the app sent in POST /order by placeOrder are the product and the    *)
(* app the confirmation modal displays, which showOrderModal wrote when it  *)
(* opened the modal, whatever startSearch did in between.                   *)
C12_OrderMatchesModal ==
    [][\A i \in Calls :
          (call[i].kind = "none" /\ call'[i].kind = "order")
          => /\ call'[i].product = ph.orderProduct
             /\ IsSome(call'[i].app)
             /\ capitalize(Get(call'[i].app)) = ph.orderApp]_vars

=============================================================================
